---- MODULE Spec2Model ----
(***************************************************************************)
(* A model of the LINE daily check-in bot: the webhook handler of app.py   *)
(* (roster and report commands over the tables group_reporters, reports    *)
(* and settings) and the scheduled absentee scan of scheduler.py.          *)
(*                                                                         *)
(* Text is modelled at the level of whitespace-separated tokens: the first *)
(* line of a message is a sequence of tokens, and a reporter name is the   *)
(* sequence of tokens the handler's regular expressions capture.           *)
(***************************************************************************)
EXTENDS Integers, Sequences, FiniteSets, Bags, TLC

VARIABLES
    reports_name_column,  \* the name of the reporter column the reports table has
    primary_keys,         \* whether the tables carry their PRIMARY KEY constraints
    group_reporters,      \* table group_reporters: a bag of <<group_id, reporter_name>>
    reports,              \* table reports: a bag of <<group_id, report_date, name>>
    settings,             \* table settings: the value of key 'is_paused', or NoRow
    now,                  \* the calendar date datetime.now() yields
    last,                 \* what the last handler run did: operation, arguments, reply
    pushes,               \* the push messages the last handler run sent
    submits,              \* the save_report calls in flight: where each one stands
    group_configs,        \* table group_configs: a set of rows [group_id, ai_mode]
    scan                  \* the scan under way: the rows it has read so far

vars == <<reports_name_column, primary_keys, group_reporters, reports, settings,
          now, last, pushes, submits, group_configs, scan>>

-----------------------------------------------------------------------------
(* Bounds of the model *)

\* number of rows the model lets the commands build up in group_reporters
MaxRoster == 2

\* number of rows the model lets the commands build up in reports
MaxReports == 2

\* number of midnights that pass during a run
MaxDays == 1

\* number of tokens of a raw name given to the name normalizer
MaxTokens == 3

\* number of times the name normalizer is applied to what it returned
MaxApplications == 2

-----------------------------------------------------------------------------
(* The calendar: datetime.strptime(s, '%Y.%m.%d').date() and timedelta(days=1) *)

IsLeap(y) == (y % 4 = 0 /\ y % 100 /= 0) \/ y % 400 = 0

DaysInMonth(y, m) ==
    IF m \in {4, 6, 9, 11} THEN 30
    ELSE IF m = 2 THEN (IF IsLeap(y) THEN 29 ELSE 28)
    ELSE 31

\* A date text of the shape \d{4}\.\d{2}\.\d{2}: its three digit fields.
DateTexts ==
    [ x \in {"2025.11.19", "2025.11.20", "2025.11.31", "2025.13.01"} |->
        CASE x = "2025.11.19" -> <<2025, 11, 19>>
          [] x = "2025.11.20" -> <<2025, 11, 20>>
          [] x = "2025.11.31" -> <<2025, 11, 31>>
          [] x = "2025.13.01" -> <<2025, 13, 1>> ]

IsDateText(tok) == tok \in DOMAIN DateTexts

\* a date check that leaves out the range of the month
ValidDate_any_month(ymd) ==
    /\ ymd[1] >= 1
    /\ ymd[3] >= 1
    /\ ymd[3] <= DaysInMonth(ymd[1], ymd[2])

\* strptime raises ValueError unless the fields name a day of the calendar.
ValidDate(ymd) ==
    /\ ymd[1] >= 1
    /\ ymd[2] \in 1..12
    /\ ymd[3] >= 1
    /\ ymd[3] <= DaysInMonth(ymd[1], ymd[2])

DayBefore(ymd) ==
    IF ymd[3] > 1 THEN <<ymd[1], ymd[2], ymd[3] - 1>>
    ELSE IF ymd[2] > 1 THEN <<ymd[1], ymd[2] - 1, DaysInMonth(ymd[1], ymd[2] - 1)>>
    ELSE <<ymd[1] - 1, 12, 31>>

DayAfter(ymd) ==
    IF ymd[3] < DaysInMonth(ymd[1], ymd[2]) THEN <<ymd[1], ymd[2], ymd[3] + 1>>
    ELSE IF ymd[2] < 12 THEN <<ymd[1], ymd[2] + 1, 1>>
    ELSE <<ymd[1] + 1, 1, 1>>

FirstDay == <<2025, 11, 20>>

RECURSIVE DaysFrom(_, _)
DaysFrom(ymd, n) == IF n = 0 THEN ymd ELSE DaysFrom(DayAfter(ymd), n - 1)

LastDay == DaysFrom(FirstDay, MaxDays)

-----------------------------------------------------------------------------
(* The tables *)

NoRow == "NoRow"

Row(r) == SetToBag({r})

\* DELETE FROM ... WHERE: every copy of every row that the condition selects goes
DeleteRows(table, selected) ==
    [r \in BagToSet(table) \ selected |-> table[r]]

\* a statement that names the reporter column of reports raises UndefinedColumn
\* unless the table has a column of that name
ReportsColumnExists(col) == col = reports_name_column

\* The tables that ensure_tables_exist creates carry PRIMARY KEYs over all their
\* columns, and their reports table has the column reporter_name.  A reports
\* table with the column name was made elsewhere: no constraint of it is known.
CreatedByScheduler == reports_name_column = "reporter_name"

HasPrimaryKeys == primary_keys

\* a table without the constraint: INSERT never raises
InsertRaises_never(table, r) == FALSE

\* INSERT raises a unique violation for a row that is there under a PRIMARY KEY
InsertRaises(table, r) == HasPrimaryKeys /\ BagIn(r, table)

Insert(table, r) == table (+) Row(r)

-----------------------------------------------------------------------------
(* Configuration and inputs *)

Groups == {"G1", "G2"}

\* EXCLUDE_GROUP_IDS, read from the environment when the process starts
EXCLUDE_GROUP_IDS == {"G2"}

\* The database is the record of its three tables.
Db(gr, rp, st) == [group_reporters |-> gr, reports |-> rp, settings |-> st]

\* What a store function hands back: the reply text (its kind), the names the
\* reply lists, the database as the function leaves it, and the pushes it sent.
Result(reply, names, db, pushed) ==
    [reply |-> reply, names |-> names, db |-> db, pushes |-> pushed]

-----------------------------------------------------------------------------
(* app.py: the store functions.  conn is whether get_db_connection() returned *)
(* a connection (TRUE) or None (FALSE).                                       *)

\* add_reporter whose lookup leaves out the group
add_reporter_any_group(db, conn, group_id, reporter_name) ==
    IF ~conn THEN Result("ConnFailed", {}, db, {})
    ELSE IF \E r \in BagToSet(db.group_reporters) : r[2] = reporter_name
    THEN Result("AlreadyExists", {}, db, {})
    ELSE IF InsertRaises(db.group_reporters, <<group_id, reporter_name>>)
    THEN Result("DbError", {}, db, {})
    ELSE Result("Added", {},
                [db EXCEPT !.group_reporters =
                    Insert(@, <<group_id, reporter_name>>)], {})

\* add_reporter without its lookup for an entry that is there already
add_reporter_no_lookup(db, conn, group_id, reporter_name) ==
    IF ~conn THEN Result("ConnFailed", {}, db, {})
    ELSE IF InsertRaises(db.group_reporters, <<group_id, reporter_name>>)
    THEN Result("DbError", {}, db, {})
    ELSE Result("Added", {},
                [db EXCEPT !.group_reporters =
                    Insert(@, <<group_id, reporter_name>>)], {})

add_reporter(db, conn, group_id, reporter_name) ==
    IF ~conn THEN Result("ConnFailed", {}, db, {})
    ELSE IF BagIn(<<group_id, reporter_name>>, db.group_reporters)
    THEN Result("AlreadyExists", {}, db, {})
    ELSE IF InsertRaises(db.group_reporters, <<group_id, reporter_name>>)
    THEN Result("DbError", {}, db, {})
    ELSE Result("Added", {},
                [db EXCEPT !.group_reporters =
                    Insert(@, <<group_id, reporter_name>>)], {})

\* delete_reporter without its lookup for the entry
delete_reporter_no_lookup(db, conn, group_id, reporter_name) ==
    IF ~conn THEN Result("ConnFailed", {}, db, {})
    ELSE IF ~ReportsColumnExists("name")
    THEN Result("DbError", {}, db, {})
    ELSE LET entries == {r \in BagToSet(db.group_reporters) :
                            r[1] = group_id /\ r[2] = reporter_name}
             history == {r \in BagToSet(db.reports) :
                            r[1] = group_id /\ r[3] = reporter_name}
         IN Result("Removed", {},
                   [db EXCEPT !.group_reporters = DeleteRows(@, entries),
                              !.reports = DeleteRows(@, history)], {})

\* delete_reporter whose DELETEs leave out the group
delete_reporter_all_groups(db, conn, group_id, reporter_name) ==
    IF ~conn THEN Result("ConnFailed", {}, db, {})
    ELSE IF ~BagIn(<<group_id, reporter_name>>, db.group_reporters)
    THEN Result("NotFound", {}, db, {})
    ELSE IF ~ReportsColumnExists("name")
    THEN Result("DbError", {}, db, {})
    ELSE LET entries == {r \in BagToSet(db.group_reporters) :
                            r[2] = reporter_name}
             history == {r \in BagToSet(db.reports) : r[3] = reporter_name}
         IN Result("Removed", {},
                   [db EXCEPT !.group_reporters = DeleteRows(@, entries),
                              !.reports = DeleteRows(@, history)], {})

delete_reporter(db, conn, group_id, reporter_name) ==
    IF ~conn THEN Result("ConnFailed", {}, db, {})
    ELSE IF ~BagIn(<<group_id, reporter_name>>, db.group_reporters)
    THEN Result("NotFound", {}, db, {})
    ELSE IF ~ReportsColumnExists("name")
    THEN \* the second DELETE raises; rollback undoes the first
         Result("DbError", {}, db, {})
    ELSE LET entries == {r \in BagToSet(db.group_reporters) :
                            r[1] = group_id /\ r[2] = reporter_name}
             history == {r \in BagToSet(db.reports) :
                            r[1] = group_id /\ r[3] = reporter_name}
         IN Result("Removed", {},
                   [db EXCEPT !.group_reporters = DeleteRows(@, entries),
                              !.reports = DeleteRows(@, history)], {})

get_reporter_list(db, conn, group_id) ==
    IF ~conn THEN Result("ConnFailed", {}, db, {})
    ELSE LET reporters == {r[2] : r \in {x \in BagToSet(db.group_reporters) :
                                             x[1] = group_id}}
         IN IF reporters = {} THEN Result("ListEmpty", {}, db, {})
            ELSE Result("List", reporters, db, {})

get_all_reporters_across_groups(db, conn) ==
    IF ~conn THEN Result("ConnFailed", {}, db, {})
    ELSE IF BagToSet(db.group_reporters) = {}
    THEN Result("AllListEmpty", {}, db, {})
    ELSE Result("AllList", {r[2] : r \in BagToSet(db.group_reporters)}, db, {})

set_pause_state(db, conn, state) ==
    IF ~conn THEN Result("PauseConnFailed", {}, db, {})
    ELSE Result(IF state = "true" THEN "Paused" ELSE "Resumed", {},
                [db EXCEPT !.settings = state], {})

\* save_report that enrols a person who is not on the roster
save_report_auto_enroll(db, conn, group_id, report_date_str, reporter_name) ==
    IF ~conn THEN Result("ConnFailed", {}, db, {})
    ELSE IF ~ValidDate(DateTexts[report_date_str])
    THEN Result("InvalidDate", {}, db, {})
    ELSE IF ~ReportsColumnExists("name")
    THEN Result("DbError", {}, db, {})
    ELSE LET report_date == DateTexts[report_date_str]
             row == <<group_id, report_date, reporter_name>>
             entry == <<group_id, reporter_name>>
             enrolled == IF BagIn(entry, db.group_reporters)
                         THEN db.group_reporters
                         ELSE Insert(db.group_reporters, entry)
         IN IF BagIn(row, db.reports)
            THEN Result("DuplicateForDate", {}, db, {})
            ELSE Result("Recorded", {},
                        [db EXCEPT !.group_reporters = enrolled,
                                   !.reports = Insert(@, row)], {})

\* save_report that writes over a report that is there already
save_report_upsert(db, conn, group_id, report_date_str, reporter_name) ==
    IF ~conn THEN Result("ConnFailed", {}, db, {})
    ELSE IF ~ValidDate(DateTexts[report_date_str])
    THEN Result("InvalidDate", {}, db, {})
    ELSE IF ~BagIn(<<group_id, reporter_name>>, db.group_reporters)
    THEN Result("NotOnRoster", {}, db, {})
    ELSE IF ~ReportsColumnExists("name")
    THEN Result("DbError", {}, db, {})
    ELSE LET report_date == DateTexts[report_date_str]
             row == <<group_id, report_date, reporter_name>>
         IN Result("Recorded", {},
                   [db EXCEPT !.reports = Insert(DeleteRows(@, {row}), row)], {})

\* save_report without its lookup for a report that is there already
save_report_no_lookup(db, conn, group_id, report_date_str, reporter_name) ==
    IF ~conn THEN Result("ConnFailed", {}, db, {})
    ELSE IF ~ValidDate(DateTexts[report_date_str])
    THEN Result("InvalidDate", {}, db, {})
    ELSE IF ~BagIn(<<group_id, reporter_name>>, db.group_reporters)
    THEN Result("NotOnRoster", {}, db, {})
    ELSE IF ~ReportsColumnExists("name")
    THEN Result("DbError", {}, db, {})
    ELSE LET report_date == DateTexts[report_date_str]
             row == <<group_id, report_date, reporter_name>>
         IN IF InsertRaises(db.reports, row)
            THEN Result("DbError", {}, db, {})
            ELSE Result("Recorded", {},
                        [db EXCEPT !.reports = Insert(@, row)], {})

save_report(db, conn, group_id, report_date_str, reporter_name) ==
    IF ~conn THEN Result("ConnFailed", {}, db, {})
    ELSE IF ~ValidDate(DateTexts[report_date_str])
    THEN Result("InvalidDate", {}, db, {})
    ELSE IF ~BagIn(<<group_id, reporter_name>>, db.group_reporters)
    THEN Result("NotOnRoster", {}, db, {})
    ELSE IF ~ReportsColumnExists("name")
    THEN Result("DbError", {}, db, {})
    ELSE LET report_date == DateTexts[report_date_str]
             row == <<group_id, report_date, reporter_name>>
         IN IF BagIn(row, db.reports)
            THEN Result("DuplicateForDate", {}, db, {})
            ELSE IF InsertRaises(db.reports, row)
            THEN Result("DbError", {}, db, {})
            ELSE Result("Recorded", {},
                        [db EXCEPT !.reports = Insert(@, row)], {})

\* the reporters of a group without a row in reports for the date, found by
\* one lookup per member on the column "name"
MissingByLookup(db, group_id, check_date) ==
    {r[2] : r \in {x \in BagToSet(db.group_reporters) :
                     /\ x[1] = group_id
                     /\ ~BagIn(<<group_id, check_date, x[2]>>, db.reports)}}

\* the target dates the scans of the code run with: each of them takes
\* datetime.now() - timedelta(days=1) and has no parameter for another date
ScanTargets == {DayBefore(now)}

\* test_daily_reminder that looks at the reports of today
test_daily_reminder_today(db, conn, group_id) ==
    IF ~conn THEN Result("TestConnFailed", {}, db, {})
    ELSE LET reporters == {r[2] : r \in {x \in BagToSet(db.group_reporters) :
                                             x[1] = group_id}}
             missing_reports == MissingByLookup(db, group_id, now)
         IN IF reporters = {} THEN Result("TestNoRoster", {}, db, {})
            ELSE IF ~ReportsColumnExists("name")
            THEN Result("TestError", {}, db, {})
            ELSE IF missing_reports = {} THEN Result("TestAllDone", {}, db, {})
            ELSE Result("TestMissing", missing_reports, db, {})

\* test_daily_reminder that sends its result with push_message, as the test
\* of all groups does
test_daily_reminder_push(db, conn, group_id) ==
    IF ~conn THEN Result("TestConnFailed", {}, db, {})
    ELSE LET check_date == DayBefore(now)
             reporters == {r[2] : r \in {x \in BagToSet(db.group_reporters) :
                                             x[1] = group_id}}
             missing_reports == MissingByLookup(db, group_id, check_date)
         IN IF reporters = {} THEN Result("TestNoRoster", {}, db, {})
            ELSE IF ~ReportsColumnExists("name")
            THEN Result("TestError", {}, db, {})
            ELSE IF missing_reports = {} THEN Result("TestAllDone", {}, db, {})
            ELSE Result("TestMissing", missing_reports, db,
                        {[group_id |-> group_id, names |-> missing_reports]})

test_daily_reminder(db, conn, group_id) ==
    IF ~conn THEN Result("TestConnFailed", {}, db, {})
    ELSE LET check_date == DayBefore(now)
             reporters == {r[2] : r \in {x \in BagToSet(db.group_reporters) :
                                             x[1] = group_id}}
             missing_reports == MissingByLookup(db, group_id, check_date)
         IN IF reporters = {} THEN Result("TestNoRoster", {}, db, {})
            ELSE IF ~ReportsColumnExists("name")
            THEN Result("TestError", {}, db, {})
            ELSE IF missing_reports = {} THEN Result("TestAllDone", {}, db, {})
            ELSE Result("TestMissing", missing_reports, db, {})

test_all_daily_reminders(db, conn) ==
    IF ~conn THEN Result("TestAllConnFailed", {}, db, {})
    ELSE IF db.settings = "true" THEN Result("TestAllPaused", {}, db, {})
    ELSE LET check_date == DayBefore(now)
             groups_to_check == {r[1] : r \in BagToSet(db.group_reporters)}
             filtered_groups_to_check == groups_to_check \ EXCLUDE_GROUP_IDS
             affected ==
                 {g \in filtered_groups_to_check :
                     MissingByLookup(db, g, check_date) /= {}}
         IN IF groups_to_check = {} THEN Result("TestAllNoRoster", {}, db, {})
            ELSE IF filtered_groups_to_check = {}
            THEN Result("TestAllExcluded", {}, db, {})
            ELSE IF ~ReportsColumnExists("name")
            THEN Result("TestAllError", {}, db, {})
            ELSE IF affected = {} THEN Result("TestAllDone", {}, db, {})
            ELSE Result("TestAllPushed", {}, db,
                        {[group_id |-> g,
                          names |-> MissingByLookup(db, g, check_date)] :
                            g \in affected})

-----------------------------------------------------------------------------
(* app.py: handle_message.  The first line of the message, stripped, is a     *)
(* sequence of tokens.  Keywords that the source spells in Chinese only are   *)
(* given an ASCII stand-in.                                                   *)

KwAdd == "ADD_NAME"        \* the keyword of r"^新增人名[\s　]+(.+)$"
KwDelete == "DELETE_NAME"  \* the keyword of r"^刪除人名[\s　]+(.+)$"

AllListTexts == {<<"all", "list">>}
PauseTexts == {<<"pause", "reminder">>}
ResumeTexts == {<<"resume", "reminder">>}
TestAllTexts == {<<"/TEST", "ALL", "REMINDER">>}
TestTexts == {<<"/TEST", "REMINDER">>}
ListTexts == {<<"list">>}

\* a token of the shape [（(][\s\w一-鿿]+[)）]
ParenTags == {"(A)", "(Thu)"}
IsParenTag(tok) == tok \in ParenTags

NoMatch == <<>>

\* re.match(r"^新增人名[\s　]+(.+)$", text).group(1).strip()
match_add(text) ==
    IF Len(text) >= 2 /\ text[1] = KwAdd THEN Tail(text) ELSE NoMatch

\* re.match(r"^刪除人名[\s　]+(.+)$", text).group(1).strip()
match_delete(text) ==
    IF Len(text) >= 2 /\ text[1] = KwDelete THEN Tail(text) ELSE NoMatch

\* the report pattern looked for anywhere in the line (re.search without the ^)
match_report_search(text) ==
    LET at == {k \in 1..Len(text) : IsDateText(text[k]) /\ k < Len(text)}
        k0 == CHOOSE k \in at : \A j \in at : k <= j
    IN IF at = {} THEN NoMatch
       ELSE <<text[k0],
              IF Len(text) >= k0 + 2 /\ IsParenTag(text[k0 + 1])
              THEN SubSeq(text, k0 + 2, Len(text))
              ELSE SubSeq(text, k0 + 1, Len(text))>>

\* the report pattern: a date, an optional parenthesised tag, and the rest of the
\* line, which has to be non-empty, as the name
match_report(text) ==
    IF Len(text) >= 2 /\ IsDateText(text[1])
    THEN <<text[1],
           IF Len(text) >= 3 /\ IsParenTag(text[2])
           THEN SubSeq(text, 3, Len(text))
           ELSE Tail(text)>>
    ELSE NoMatch

None == "None"

\* reply_text and what the calls made so far did
Started(db) ==
    [reply |-> None, names |-> {}, db |-> db, pushes |-> {}, calls |-> <<>>,
     reporter_name |-> <<>>, date_str |-> None]

Called(s, fn, reporter_name, date_str, r) ==
    [reply |-> r.reply, names |-> r.names, db |-> r.db,
     pushes |-> s.pushes \cup r.pushes, calls |-> Append(s.calls, fn),
     reporter_name |-> reporter_name, date_str |-> date_str]

\* The branches of handle_message for a group or a room, in the order of the
\* source.  Each takes what the branches before it left and hands on what it
\* leaves: a branch that does not match leaves everything as it was.

branch_test_all(s, conn, group_id, text) ==
    IF text \in TestAllTexts
    THEN Called(s, "test_all_daily_reminders", <<>>, None,
                test_all_daily_reminders(s.db, conn))
    ELSE s

branch_test(s, conn, group_id, text) ==
    IF text \in TestTexts /\ s.reply = None
    THEN Called(s, "test_daily_reminder", <<>>, None,
                test_daily_reminder(s.db, conn, group_id))
    ELSE s

branch_add(s, conn, group_id, text) ==
    LET reporter_name == match_add(text)
    IN IF reporter_name /= NoMatch
       THEN Called(s, "add_reporter", reporter_name, None,
                   add_reporter(s.db, conn, group_id, reporter_name))
       ELSE s

branch_delete(s, conn, group_id, text) ==
    LET reporter_name == match_delete(text)
    IN IF reporter_name /= NoMatch
       THEN Called(s, "delete_reporter", reporter_name, None,
                   delete_reporter(s.db, conn, group_id, reporter_name))
       ELSE s

branch_list(s, conn, group_id, text) ==
    IF text \in ListTexts
    THEN Called(s, "get_reporter_list", <<>>, None,
                get_reporter_list(s.db, conn, group_id))
    ELSE s

branch_report(s, conn, group_id, text) ==
    LET match == match_report(text)
    IN IF match /= NoMatch
       THEN Called(s, "save_report", match[2], match[1],
                   save_report(s.db, conn, group_id, match[1], match[2]))
       ELSE s

handle_message(db, conn, event) ==
    LET text == event.text
        group_id == event.source_id
    IN  IF text \in AllListTexts
        THEN Called(Started(db), "get_all_reporters_across_groups", <<>>, None,
                    get_all_reporters_across_groups(db, conn))
        ELSE IF text \in PauseTexts
        THEN Called(Started(db), "set_pause_state", <<>>, None,
                    set_pause_state(db, conn, "true"))
        ELSE IF text \in ResumeTexts
        THEN Called(Started(db), "set_pause_state", <<>>, None,
                    set_pause_state(db, conn, "false"))
        ELSE IF event.source_type \notin {"group", "room"} THEN Started(db)
        ELSE branch_report(
               branch_list(
                 branch_delete(
                   branch_add(
                     branch_test(
                       branch_test_all(Started(db), conn, group_id, text),
                       conn, group_id, text),
                     conn, group_id, text),
                   conn, group_id, text),
                 conn, group_id, text),
               conn, group_id, text)

-----------------------------------------------------------------------------
(* scheduler.py: the scheduled absentee scan *)

\* CREATE TABLE IF NOT EXISTS leaves the existing tables as they are
ensure_tables_exist(conn) == conn

\* is_global_pause_state that takes a missing row for a pause
is_global_pause_state_default_paused(db) == db.settings /= "false"

is_global_pause_state(db) == db.settings \in {"true", "True", "TRUE"}

\* check_daily_reminder without the test for EXCLUDE_GROUP_IDS
check_daily_reminder_no_exclude(db, conn_tables, conn) ==
    IF ~ensure_tables_exist(conn_tables) THEN Result("ScanNoTables", {}, db, {})
    ELSE IF ~conn THEN Result("ScanConnFailed", {}, db, {})
    ELSE IF is_global_pause_state(db) THEN Result("ScanPaused", {}, db, {})
    ELSE LET yesterday_date == DayBefore(now)
             to_check == {r[1] : r \in BagToSet(db.group_reporters)}
             all_reporters(g) ==
                 {r[2] : r \in {x \in BagToSet(db.group_reporters) : x[1] = g}}
             reported_reporters(g) ==
                 {r[3] : r \in {x \in BagToSet(db.reports) :
                                  x[1] = g /\ x[2] = yesterday_date}}
             missing_reports(g) == all_reporters(g) \ reported_reporters(g)
         IN IF to_check /= {} /\ ~ReportsColumnExists("reporter_name")
            THEN Result("ScanError", {}, db, {})
            ELSE Result("ScanDone", {}, db,
                        {[group_id |-> g, names |-> missing_reports(g)] :
                            g \in {x \in to_check : missing_reports(x) /= {}}})

\* check_daily_reminder that first makes sure the row of the pause flag is
\* there, as set_pause_state does
check_daily_reminder_init_flag(db, conn_tables, conn) ==
    IF ~ensure_tables_exist(conn_tables) THEN Result("ScanNoTables", {}, db, {})
    ELSE IF ~conn THEN Result("ScanConnFailed", {}, db, {})
    ELSE LET seeded == [db EXCEPT !.settings = IF @ = NoRow THEN "false" ELSE @]
         IN IF is_global_pause_state(db)
            THEN Result("ScanPaused", {}, seeded, {})
            ELSE Result("ScanDone", {}, seeded, {})

check_daily_reminder(db, conn_tables, conn) ==
    IF ~ensure_tables_exist(conn_tables) THEN Result("ScanNoTables", {}, db, {})
    ELSE IF ~conn THEN Result("ScanConnFailed", {}, db, {})
    ELSE IF is_global_pause_state(db) THEN Result("ScanPaused", {}, db, {})
    ELSE LET yesterday_date == DayBefore(now)
             all_group_ids == {r[1] : r \in BagToSet(db.group_reporters)}
             to_check == all_group_ids \ EXCLUDE_GROUP_IDS
             all_reporters(g) ==
                 {r[2] : r \in {x \in BagToSet(db.group_reporters) : x[1] = g}}
             reported_reporters(g) ==
                 {r[3] : r \in {x \in BagToSet(db.reports) :
                                  x[1] = g /\ x[2] = yesterday_date}}
             missing_reports(g) == all_reporters(g) \ reported_reporters(g)
         IN IF to_check /= {} /\ ~ReportsColumnExists("reporter_name")
            THEN \* the first SELECT on reports raises and ends the scan
                 Result("ScanError", {}, db, {})
            ELSE Result("ScanDone", {}, db,
                        {[group_id |-> g, names |-> missing_reports(g)] :
                            g \in {x \in to_check : missing_reports(x) /= {}}})

-----------------------------------------------------------------------------
(* The inputs the model draws from *)

Names == {<<"Alice">>, <<"Bob">>, <<"(A)", "Bob">>}

\* first lines that the report pattern matches, or nearly
ReportTexts ==
    {<<d>> \o n : d \in {"2025.11.19", "2025.11.20"},
                  n \in {<<"Alice">>, <<"Bob">>}}
    \cup {<<"2025.11.20", "(A)", "Bob">>,
          <<"2025.11.20", "(Thu)", "(A)", "Bob">>,
          <<"2025.11.20", "Alice", "had", "a", "great", "day">>,
          <<"2025.13.01", "Bob">>,
          <<"2025.11.31", "Bob">>,
          <<"2025.11.20">>}

\* first lines that hold the marks of two commands
MixedTexts ==
    {<<KwAdd, "2025.11.20", "Bob">>, <<"2025.11.20", KwDelete, "Bob">>,
     <<"list", "2025.11.20", "Bob">>}

Texts ==
    {<<KwAdd>> \o n : n \in Names} \cup {<<KwDelete>> \o n : n \in Names}
    \cup ReportTexts \cup MixedTexts
    \cup {<<KwAdd>>, <<"hello">>}
    \cup AllListTexts \cup PauseTexts \cup ResumeTexts
    \cup TestAllTexts \cup TestTexts \cup ListTexts

\* the second group sends fewer kinds of message
FewTexts ==
    {<<KwAdd, "Bob">>, <<KwDelete, "Bob">>, <<"2025.11.20", "Bob">>}
    \cup TestTexts

\* the messages during which the database may be out of reach: one for each
\* function that opens a connection
OutageTexts ==
    {<<KwAdd, "Bob">>, <<KwDelete, "Bob">>, <<"2025.11.20", "Bob">>}
    \cup AllListTexts \cup PauseTexts \cup TestAllTexts \cup TestTexts
    \cup ListTexts

Events ==
    [source_type : {"group"}, source_id : {"G1"}, text : Texts]
    \cup [source_type : {"group"}, source_id : {"G2"}, text : FewTexts]
    \cup [source_type : {"user"}, source_id : {"U1"},
          text : PauseTexts \cup ListTexts]

-----------------------------------------------------------------------------
(* The state machine *)

\* the webhook workers that can run save_report at the same time
Handlers == {1, 2}

\* a worker that is not inside a store function.  conn: the connection of
\* the call, "none" while get_db_connection() has returned none, "open",
\* "closed" after conn.close(), "reclaimed" once the interpreter has freed a
\* connection that was left open
NotCalled ==
    [pc |-> "idle", group_id |-> None, date_str |-> None, reporter_name |-> <<>>,
     reply |-> None, wrote |-> FALSE, conn |-> "none"]

\* no scan is under way.  fn: the function that scans; groups: the groups it
\* has still to go through; roster: the roster rows it holds; group: the group
\* it is at; pending: the members it has still to look up; missing: the
\* members it found without a report; touched: the names whose rows a command
\* has written since the scan began; tried: the calls of push_message so far,
\* each with its group and how it ended
NotScanning ==
    [pc |-> "idle", fn |-> None, groups |-> {}, roster |-> {}, group |-> None,
     pending |-> {}, missing |-> {}, touched |-> {}, tried |-> <<>>]

\* again: the run before this one, with nothing in between, was a scan that
\* got its connections; signature: what the check of X-Line-Signature found
Idle ==
    [calls |-> <<>>, group_id |-> None, text |-> <<>>, reporter_name |-> <<>>,
     date_str |-> None, reply |-> None, names |-> {}, again |-> FALSE,
     signature |-> "valid"]

\* The commands of one handler at a time look a row up before they insert it,
\* so they never meet a constraint of a table made elsewhere: it is left out.
Init ==
    /\ reports_name_column \in {"name", "reporter_name"}
    /\ primary_keys = CreatedByScheduler
    /\ submits = [h \in Handlers |-> NotCalled]
    /\ group_configs = {}
    /\ scan = NotScanning
    /\ group_reporters = EmptyBag
    /\ reports = EmptyBag
    /\ settings = NoRow
    /\ now = FirstDay
    /\ last = Idle
    /\ pushes = {}

\* the webhook delivers one text message and handle_message runs to its end
HandleMessage ==
    \E event \in Events, conn \in BOOLEAN :
        LET s == handle_message(Db(group_reporters, reports, settings), conn, event)
        IN /\ ~conn => event.source_id = "G1" /\ event.text \in OutageTexts
           /\ BagCardinality(s.db.group_reporters) <= MaxRoster
           /\ BagCardinality(s.db.reports) <= MaxReports
           /\ group_reporters' = s.db.group_reporters
           /\ reports' = s.db.reports
           /\ settings' = s.db.settings
           /\ last' = [calls |-> s.calls, group_id |-> event.source_id,
                       text |-> event.text, reporter_name |-> s.reporter_name,
                       date_str |-> s.date_str, reply |-> s.reply,
                       names |-> s.names, again |-> FALSE,
                       signature |-> "valid"]
           /\ pushes' = s.pushes
           /\ UNCHANGED <<reports_name_column, primary_keys, now, submits,
                          group_configs, scan>>

\* the scheduled job of scheduler.py runs check_daily_reminder to its end
CheckDailyReminder ==
    \E conn_tables \in BOOLEAN, conn \in BOOLEAN :
        LET r == check_daily_reminder(Db(group_reporters, reports, settings),
                                      conn_tables, conn)
        IN /\ group_reporters' = r.db.group_reporters
           /\ reports' = r.db.reports
           /\ settings' = r.db.settings
           /\ last' = [calls |-> <<"check_daily_reminder">>, group_id |-> None,
                       text |-> <<>>, reporter_name |-> <<>>, date_str |-> None,
                       reply |-> r.reply, names |-> {},
                       again |-> /\ last.calls = <<"check_daily_reminder">>
                                 /\ last.reply \notin {"ScanNoTables",
                                                        "ScanConnFailed"},
                       signature |-> "valid"]
           /\ pushes' = r.pushes
           /\ UNCHANGED <<reports_name_column, primary_keys, now, submits,
                          group_configs, scan>>

\* midnight passes
Tick ==
    /\ now /= LastDay
    /\ now' = DayAfter(now)
    /\ last' = Idle
    /\ pushes' = {}
    /\ UNCHANGED <<reports_name_column, primary_keys, group_reporters, reports,
                   settings, submits, group_configs, scan>>

Next == HandleMessage \/ CheckDailyReminder \/ Tick

Spec == Init /\ [][Next]_vars

-----------------------------------------------------------------------------
(* The webhook process with connections that drop.  When the server ends the  *)
(* connection under a statement, execute raises OperationalError and the      *)
(* connection is closed; conn.rollback() on a closed connection raises        *)
(* InterfaceError.  The store functions whose except branch rolls back raise  *)
(* out of that branch; nothing between them and callback catches it.          *)

\* the functions whose except branch calls conn.rollback()
RollsBack ==
    {"set_pause_state", "add_reporter", "delete_reporter", "get_reporter_list",
     "get_all_reporters_across_groups", "save_report"}

\* the reply kinds whose text is built from the exception: f"...: {e}"
CarriesExceptionText(reply) == reply \in {"DbError", "TestError", "TestAllError"}

\* what a function makes of a connection that drops under its first statement
connection_lost(fn) ==
    IF fn \in RollsBack THEN "Raised"
    ELSE IF fn = "test_daily_reminder" THEN "TestError"
    ELSE "TestAllError"

\* what callback answers the platform: handler.handle returned, or raised
\* InvalidSignatureError (abort(400)), or raised something that callback does
\* not catch
callback(reply) ==
    IF reply = "InvalidSignature" THEN "400"
    ELSE IF reply = "Raised" THEN "500"
    ELSE "OK"

\* replies sent for the message: reply_message is called once with the text
\* of the function, unless the handler did not get that far
reply_message(reply) ==
    IF reply \in {None, "Raised", "InvalidSignature"} THEN 0 ELSE 1

\* one message is handled while the connection drops under the first statement
\* of the function it calls: the open transaction is lost with the connection
ConnectionLost ==
    \E event \in Events :
        LET s == handle_message(Db(group_reporters, reports, settings), TRUE, event)
        IN /\ s.calls /= <<>>
           /\ s.reply /= "InvalidDate"
           /\ last' = [calls |-> s.calls, group_id |-> event.source_id,
                       text |-> event.text, reporter_name |-> s.reporter_name,
                       date_str |-> s.date_str,
                       reply |-> connection_lost(s.calls[1]),
                       names |-> {}, again |-> FALSE, signature |-> "valid"]
           /\ pushes' = {}
           /\ UNCHANGED <<reports_name_column, primary_keys, group_reporters,
                          reports, settings, now, submits,
                          group_configs, scan>>

NextFaults == HandleMessage \/ ConnectionLost

SpecFaults == Init /\ [][NextFaults]_vars

-----------------------------------------------------------------------------
(* The webhook route.  callback hands the body and the X-Line-Signature       *)
(* header to handler.handle, which checks the signature of the body before it *)
(* parses the events and calls handle_message for them.                       *)

\* handler.handle that does not check the signature
handle_unverified(db, conn, event, signature) == handle_message(db, conn, event)

\* handler.handle(body, signature): raises InvalidSignatureError, or dispatches
handle(db, conn, event, signature) ==
    IF signature /= "valid"
    THEN [Started(db) EXCEPT !.reply = "InvalidSignature"]
    ELSE handle_message(db, conn, event)

\* the deliveries the route is given
CallbackEvents ==
    [source_type : {"group"}, source_id : Groups,
     text : FewTexts \cup PauseTexts \cup ResumeTexts \cup TestAllTexts]

\* one POST to /callback, with a signature that fits the body or does not
Callback ==
    \E event \in CallbackEvents, signature \in {"valid", "invalid"} :
        LET s == handle(Db(group_reporters, reports, settings), TRUE, event,
                        signature)
        IN /\ BagCardinality(s.db.group_reporters) <= MaxRoster
           /\ BagCardinality(s.db.reports) <= MaxReports
           /\ group_reporters' = s.db.group_reporters
           /\ reports' = s.db.reports
           /\ settings' = s.db.settings
           /\ last' = [calls |-> s.calls, group_id |-> event.source_id,
                       text |-> event.text, reporter_name |-> s.reporter_name,
                       date_str |-> s.date_str, reply |-> s.reply,
                       names |-> s.names, again |-> FALSE,
                       signature |-> signature]
           /\ pushes' = s.pushes
           /\ UNCHANGED <<reports_name_column, primary_keys, now, submits,
                          group_configs, scan>>

NextCallback == Callback \/ Tick

SpecCallback == Init /\ [][NextCallback]_vars

-----------------------------------------------------------------------------
(* save_report, statement by statement, in two webhook workers at once.  Each *)
(* worker has its own connection and transaction; a SELECT sees what has been *)
(* committed; INSERT and commit are one step, as an INSERT of a key that an    *)
(* open transaction has inserted waits for that transaction to end.           *)

RaceRoster == SetToBag({<<"G1", <<"Alice">>>>, <<"G1", <<"Bob">>>>})

RaceDates == {"2025.11.20", "2025.13.01"}

InitRace ==
    /\ reports_name_column \in {"name", "reporter_name"}
    /\ primary_keys \in {TRUE, CreatedByScheduler}
    /\ group_reporters = RaceRoster
    /\ reports = EmptyBag
    /\ settings = NoRow
    /\ now = FirstDay
    /\ last = Idle
    /\ pushes = {}
    /\ submits = [h \in Handlers |-> NotCalled]
    /\ group_configs = {}
    /\ scan = NotScanning

InFlight == {h \in Handlers : submits[h].pc \notin {"idle", "done"}}

RaceRow(h) ==
    <<submits[h].group_id, DateTexts[submits[h].date_str],
      submits[h].reporter_name>>

\* a return from inside try ... finally: if conn: conn.close()
Returns(h, reply, wrote) ==
    submits' = [submits EXCEPT ![h].pc = "done", ![h].reply = reply,
                               ![h].wrote = wrote, ![h].conn = "closed"]

\* what becomes of a connection whose only reference goes out of scope: it
\* stays open until the interpreter frees the object
Unreferenced == {"open", "reclaimed"}

\* handle_message matches a report and calls save_report
RaceCall(h) ==
    /\ submits[h].pc \in {"idle", "done"}
    /\ BagCardinality(reports) + Cardinality(InFlight) < MaxReports
    /\ \E d \in RaceDates, n \in {<<"Alice">>, <<"Bob">>, <<"Carol">>} :
          submits' = [submits EXCEPT ![h] =
                         [pc |-> "connect", group_id |-> "G1", date_str |-> d,
                          reporter_name |-> n, reply |-> None, wrote |-> FALSE,
                          conn |-> "none"]]
    /\ UNCHANGED <<reports_name_column, primary_keys, group_reporters, reports,
                   settings, now, last, pushes, group_configs, scan>>

\* get_db_connection() and strptime; the two returns here come before the
\* try ... finally that closes the connection
RaceConnect(h) ==
    /\ submits[h].pc = "connect"
    /\ \E conn \in BOOLEAN :
          IF ~conn
          THEN submits' = [submits EXCEPT ![h].pc = "done",
                                          ![h].reply = "ConnFailed"]
          ELSE IF ~ValidDate(DateTexts[submits[h].date_str])
          THEN \E left \in Unreferenced :
                  submits' = [submits EXCEPT ![h].pc = "done",
                                             ![h].reply = "InvalidDate",
                                             ![h].conn = left]
          ELSE submits' = [submits EXCEPT ![h].pc = "select_roster",
                                          ![h].conn = "open"]
    /\ UNCHANGED <<reports_name_column, primary_keys, group_reporters, reports,
                   settings, now, last, pushes, group_configs, scan>>

\* SELECT group_id FROM group_reporters ...
RaceSelectRoster(h) ==
    /\ submits[h].pc = "select_roster"
    /\ IF ~BagIn(<<submits[h].group_id, submits[h].reporter_name>>,
                 group_reporters)
       THEN Returns(h, "NotOnRoster", FALSE)
       ELSE submits' = [submits EXCEPT ![h].pc = "select_report"]
    /\ UNCHANGED <<reports_name_column, primary_keys, group_reporters, reports,
                   settings, now, last, pushes, group_configs, scan>>

\* SELECT * FROM reports ... AND name = %s
RaceSelectReport(h) ==
    /\ submits[h].pc = "select_report"
    /\ IF ~ReportsColumnExists("name") THEN Returns(h, "DbError", FALSE)
       ELSE IF BagIn(RaceRow(h), reports)
       THEN Returns(h, "DuplicateForDate", FALSE)
       ELSE submits' = [submits EXCEPT ![h].pc = "insert"]
    /\ UNCHANGED <<reports_name_column, primary_keys, group_reporters, reports,
                   settings, now, last, pushes, group_configs, scan>>

\* INSERT INTO reports ...; conn.commit(), or the except branch with rollback
RaceInsert(h) ==
    /\ submits[h].pc = "insert"
    /\ IF InsertRaises(reports, RaceRow(h))
       THEN Returns(h, "DbError", FALSE) /\ reports' = reports
       ELSE Returns(h, "Recorded", TRUE) /\ reports' = Insert(reports, RaceRow(h))
    /\ UNCHANGED <<reports_name_column, primary_keys, group_reporters,
                   settings, now, last, pushes, group_configs, scan>>

NextRace ==
    \E h \in Handlers :
        \/ RaceCall(h)
        \/ RaceConnect(h)
        \/ RaceSelectRoster(h)
        \/ RaceSelectReport(h)
        \/ RaceInsert(h)

SpecRace == InitRace /\ [][NextRace]_vars

-----------------------------------------------------------------------------
(* delete_reporter next to save_report.  A worker runs the one or the other;  *)
(* the two DELETEs and the commit of delete_reporter are one step, as nothing *)
(* of them is seen by another connection before the commit.                   *)

\* handle_message matches a removal, calls delete_reporter, and
\* get_db_connection() answers
RaceCallDelete(h) ==
    /\ submits[h].pc \in {"idle", "done"}
    /\ \E n \in {<<"Alice">>, <<"Bob">>}, conn \in BOOLEAN :
          submits' = [submits EXCEPT ![h] =
                         [pc |-> IF conn THEN "delete_select" ELSE "done",
                          group_id |-> "G1", date_str |-> None,
                          reporter_name |-> n,
                          reply |-> IF conn THEN None ELSE "ConnFailed",
                          wrote |-> FALSE,
                          conn |-> IF conn THEN "open" ELSE "none"]]
    /\ UNCHANGED <<reports_name_column, primary_keys, group_reporters, reports,
                   settings, now, last, pushes, group_configs, scan>>

\* SELECT group_id FROM group_reporters ...
RaceDeleteSelect(h) ==
    /\ submits[h].pc = "delete_select"
    /\ IF ~BagIn(<<submits[h].group_id, submits[h].reporter_name>>,
                 group_reporters)
       THEN Returns(h, "NotFound", FALSE)
       ELSE submits' = [submits EXCEPT ![h].pc = "delete_rows"]
    /\ UNCHANGED <<reports_name_column, primary_keys, group_reporters, reports,
                   settings, now, last, pushes, group_configs, scan>>

\* DELETE FROM group_reporters ...; DELETE FROM reports ... AND name = %s;
\* conn.commit(), or the except branch with rollback
RaceDeleteRows(h) ==
    /\ submits[h].pc = "delete_rows"
    /\ IF ~ReportsColumnExists("name")
       THEN /\ Returns(h, "DbError", FALSE)
            /\ UNCHANGED <<group_reporters, reports>>
       ELSE /\ Returns(h, "Removed", TRUE)
            /\ group_reporters' =
                  DeleteRows(group_reporters,
                             {r \in BagToSet(group_reporters) :
                                 /\ r[1] = submits[h].group_id
                                 /\ r[2] = submits[h].reporter_name})
            /\ reports' =
                  DeleteRows(reports,
                             {r \in BagToSet(reports) :
                                 /\ r[1] = submits[h].group_id
                                 /\ r[3] = submits[h].reporter_name})
    /\ UNCHANGED <<reports_name_column, primary_keys, settings, now, last,
                   pushes, group_configs, scan>>

NextRemoveRace ==
    \E h \in Handlers :
        \/ RaceCall(h)
        \/ RaceConnect(h)
        \/ RaceSelectRoster(h)
        \/ RaceSelectReport(h)
        \/ RaceInsert(h)
        \/ RaceCallDelete(h)
        \/ RaceDeleteSelect(h)
        \/ RaceDeleteRows(h)

SpecRemoveRace == InitRace /\ [][NextRemoveRace]_vars

-----------------------------------------------------------------------------
(* The connections of the store functions: add_reporter statement by          *)
(* statement beside save_report and delete_reporter.                          *)

Adding == {h \in Handlers : submits[h].pc \in {"add_select", "add_insert"}}

\* handle_message matches an addition, calls add_reporter, and
\* get_db_connection() answers
RaceCallAdd(h) ==
    /\ submits[h].pc \in {"idle", "done"}
    /\ BagCardinality(group_reporters) + Cardinality(Adding) <= MaxRoster
    /\ \E n \in {<<"Alice">>, <<"Carol">>}, conn \in BOOLEAN :
          submits' = [submits EXCEPT ![h] =
                         [pc |-> IF conn THEN "add_select" ELSE "done",
                          group_id |-> "G1", date_str |-> None,
                          reporter_name |-> n,
                          reply |-> IF conn THEN None ELSE "ConnFailed",
                          wrote |-> FALSE,
                          conn |-> IF conn THEN "open" ELSE "none"]]
    /\ UNCHANGED <<reports_name_column, primary_keys, group_reporters, reports,
                   settings, now, last, pushes, group_configs, scan>>

\* SELECT group_id FROM group_reporters ...
RaceAddSelect(h) ==
    /\ submits[h].pc = "add_select"
    /\ IF BagIn(<<submits[h].group_id, submits[h].reporter_name>>,
                group_reporters)
       THEN Returns(h, "AlreadyExists", FALSE)
       ELSE submits' = [submits EXCEPT ![h].pc = "add_insert"]
    /\ UNCHANGED <<reports_name_column, primary_keys, group_reporters, reports,
                   settings, now, last, pushes, group_configs, scan>>

\* INSERT INTO group_reporters ...; conn.commit(), or the except branch with
\* rollback
RaceAddInsert(h) ==
    /\ submits[h].pc = "add_insert"
    /\ IF InsertRaises(group_reporters,
                       <<submits[h].group_id, submits[h].reporter_name>>)
       THEN Returns(h, "DbError", FALSE) /\ group_reporters' = group_reporters
       ELSE /\ Returns(h, "Added", TRUE)
            /\ group_reporters' =
                  Insert(group_reporters,
                         <<submits[h].group_id, submits[h].reporter_name>>)
    /\ UNCHANGED <<reports_name_column, primary_keys, reports, settings, now,
                   last, pushes, group_configs, scan>>

NextConnections ==
    \E h \in Handlers :
        \/ RaceCall(h)
        \/ RaceConnect(h)
        \/ RaceSelectRoster(h)
        \/ RaceSelectReport(h)
        \/ RaceInsert(h)
        \/ RaceCallDelete(h)
        \/ RaceDeleteSelect(h)
        \/ RaceDeleteRows(h)
        \/ RaceCallAdd(h)
        \/ RaceAddSelect(h)
        \/ RaceAddInsert(h)

SpecConnections == InitRace /\ [][NextConnections]_vars

-----------------------------------------------------------------------------
(* The scans, read by read, next to the webhook.  check_daily_reminder and    *)
(* test_all_daily_reminders keep one connection and no lock: each SELECT sees *)
(* what is committed when it runs, and push_message is called after the reads *)
(* of a group.  A command of the webhook commits as one step.                 *)

\* the order of ORDER BY reporter_name
NameOrder == << <<"Alice">>, <<"Bob">>, <<"Carol">> >>

FirstOf(names) ==
    NameOrder[CHOOSE k \in 1..Len(NameOrder) :
                 /\ NameOrder[k] \in names
                 /\ \A j \in 1..(k - 1) : NameOrder[j] \notin names]

\* the order of ORDER BY group_id
GroupOrder == <<"G1", "G2", "G3">>

\* the groups the loop can go on to: the dictionary of app.py keeps the order
\* of ORDER BY group_id; SELECT DISTINCT group_id of scheduler.py has no order
NextGroups(fn, groups) ==
    IF fn = "test_all_daily_reminders"
    THEN {GroupOrder[k] : k \in {i \in 1..Len(GroupOrder) :
                                    /\ GroupOrder[i] \in groups
                                    /\ \A j \in 1..(i - 1) :
                                          GroupOrder[j] \notin groups}}
    ELSE groups

\* a lookup that leaves the date out
lookup_missing_any_date(rp, group_id, check_date, reporter_name) ==
    ~\E r \in BagToSet(rp) : r[1] = group_id /\ r[3] = reporter_name

\* SELECT name FROM reports WHERE group_id = .. AND report_date = .. AND
\* name = ..; not cur.fetchone()
lookup_missing(rp, group_id, check_date, reporter_name) ==
    ~BagIn(<<group_id, check_date, reporter_name>>, rp)

\* the commands that commit while a scan is under way
ScanRaceEvents ==
    [source_type : {"group"}, source_id : {"G1"},
     text : {<<KwAdd, "Bob">>, <<KwDelete, "Bob">>, <<KwDelete, "Alice">>,
             <<"2025.11.19", "Alice">>, <<"2025.11.19", "Bob">>,
             <<"2025.11.20", "Bob">>}]

\* the scan begins: the pause flag is read, then the groups with a roster
\* (scheduler.py) or all roster rows (app.py)
ScanStart ==
    \E fn \in {"check_daily_reminder", "test_all_daily_reminders"} :
        LET paused == IF fn = "check_daily_reminder"
                      THEN is_global_pause_state(
                               Db(group_reporters, reports, settings))
                      ELSE settings = "true"
            rows == BagToSet(group_reporters)
            ids == {r[1] : r \in rows} \ EXCLUDE_GROUP_IDS
        IN /\ scan.pc \in {"idle", "done"}
           /\ scan' = IF paused \/ rows = {}
                      THEN [NotScanning EXCEPT !.pc = "done", !.fn = fn]
                      ELSE [NotScanning EXCEPT
                               !.pc = "next_group", !.fn = fn, !.groups = ids,
                               !.roster = IF fn = "test_all_daily_reminders"
                                          THEN rows ELSE {}]
           /\ pushes' = {}
           /\ last' = Idle
           /\ UNCHANGED <<reports_name_column, primary_keys, group_reporters,
                          reports, settings, now, submits, group_configs>>

\* for group_id in ...: the loop goes on to a group, or ends
ScanNextGroup ==
    /\ scan.pc = "next_group"
    /\ IF scan.groups = {}
       THEN scan' = [scan EXCEPT !.pc = "done", !.group = None]
       ELSE \E g \in NextGroups(scan.fn, scan.groups) :
               scan' = [scan EXCEPT
                           !.group = g, !.groups = @ \ {g}, !.missing = {},
                           !.pending =
                               IF scan.fn = "test_all_daily_reminders"
                               THEN {r[2] : r \in {x \in scan.roster : x[1] = g}}
                               ELSE {},
                           !.pc = IF scan.fn = "test_all_daily_reminders"
                                  THEN "lookup" ELSE "read_roster"]
    /\ UNCHANGED <<reports_name_column, primary_keys, group_reporters, reports,
                   settings, now, last, pushes, submits, group_configs>>

\* scheduler.py: SELECT reporter_name FROM group_reporters WHERE group_id = ..
ScanReadRoster ==
    /\ scan.pc = "read_roster"
    /\ LET all_reporters ==
               {r[2] : r \in {x \in BagToSet(group_reporters) :
                                x[1] = scan.group}}
       IN scan' = [scan EXCEPT !.pending = all_reporters,
                               !.pc = IF all_reporters = {} THEN "next_group"
                                      ELSE "read_reports"]
    /\ UNCHANGED <<reports_name_column, primary_keys, group_reporters, reports,
                   settings, now, last, pushes, submits, group_configs>>

\* scheduler.py: SELECT reporter_name FROM reports WHERE group_id = .. AND
\* report_date = ..; missing_reports = all_reporters - reported_reporters
ScanReadReports ==
    /\ scan.pc = "read_reports"
    /\ LET reported_reporters ==
               {r[3] : r \in {x \in BagToSet(reports) :
                                x[1] = scan.group /\ x[2] = DayBefore(now)}}
       IN scan' = IF ~ReportsColumnExists("reporter_name")
                  THEN [scan EXCEPT !.pc = "done"]
                  ELSE [scan EXCEPT !.missing = scan.pending \ reported_reporters,
                                    !.pending = {}, !.pc = "push"]
    /\ UNCHANGED <<reports_name_column, primary_keys, group_reporters, reports,
                   settings, now, last, pushes, submits, group_configs>>

\* app.py: for reporter_name in reporters: one lookup in reports
ScanLookup ==
    /\ scan.pc = "lookup"
    /\ LET reporter_name == FirstOf(scan.pending)
       IN scan' = IF ~ReportsColumnExists("name")
                  THEN [scan EXCEPT !.pc = "done"]
                  ELSE [scan EXCEPT
                           !.missing =
                               IF lookup_missing(reports, scan.group,
                                                 DayBefore(now), reporter_name)
                               THEN @ \cup {reporter_name} ELSE @,
                           !.pending = @ \ {reporter_name},
                           !.pc = IF scan.pending = {reporter_name}
                                  THEN "push" ELSE "lookup"]
    /\ UNCHANGED <<reports_name_column, primary_keys, group_reporters, reports,
                   settings, now, last, pushes, submits, group_configs>>

\* if missing_reports: line_bot_api.push_message(group_id, ...)
ScanPush ==
    /\ scan.pc = "push"
    /\ scan' = [scan EXCEPT !.pc = "next_group"]
    /\ IF scan.missing = {}
       THEN UNCHANGED <<pushes, last>>
       ELSE /\ pushes' = pushes \cup {[group_id |-> scan.group,
                                        names |-> scan.missing]}
            /\ last' = [Idle EXCEPT !.calls = <<scan.fn>>,
                                    !.group_id = scan.group,
                                    !.names = scan.missing,
                                    !.reply = "Pushed"]
    /\ UNCHANGED <<reports_name_column, primary_keys, group_reporters, reports,
                   settings, now, submits, group_configs>>

\* a message of the webhook is handled, from its first statement to its commit
ScanCommand ==
    \E event \in ScanRaceEvents :
        LET db == Db(group_reporters, reports, settings)
            s == handle_message(db, TRUE, event)
        IN /\ BagCardinality(s.db.group_reporters) <= MaxRoster
           /\ BagCardinality(s.db.reports) <= MaxReports
           /\ group_reporters' = s.db.group_reporters
           /\ reports' = s.db.reports
           /\ settings' = s.db.settings
           /\ last' = [calls |-> s.calls, group_id |-> event.source_id,
                       text |-> event.text, reporter_name |-> s.reporter_name,
                       date_str |-> s.date_str, reply |-> s.reply,
                       names |-> s.names, again |-> FALSE,
                       signature |-> "valid"]
           /\ scan' = IF s.db /= db /\ scan.pc \notin {"idle", "done"}
                      THEN [scan EXCEPT !.touched = @ \cup {s.reporter_name}]
                      ELSE scan
           /\ UNCHANGED <<reports_name_column, primary_keys, now, pushes,
                          submits, group_configs>>

NextScanRace ==
    \/ ScanStart
    \/ ScanNextGroup
    \/ ScanReadRoster
    \/ ScanReadReports
    \/ ScanLookup
    \/ ScanPush
    \/ ScanCommand

SpecScanRace == InitRace /\ [][NextScanRace]_vars

-----------------------------------------------------------------------------
(* The scans with pushes that fail.  push_message raises LineBotApiError when *)
(* the platform answers with an error status, and an exception of the HTTP    *)
(* client (requests) when the platform is not reached; the scans catch        *)
(* LineBotApiError around the push and everything else around the loop.       *)

PushOutcomes == {"sent", "LineBotApiError", "RequestException"}

\* the stores a scan can meet: three groups with a roster, G2 excluded; only
\* a reports table with the column name can hold rows, as save_report is the
\* one that writes them
InitPushFaults ==
    /\ reports_name_column \in {"name", "reporter_name"}
    /\ primary_keys = CreatedByScheduler
    /\ \E more \in SUBSET {<<"G1", <<"Bob">>>>, <<"G3", <<"Alice">>>>} :
          group_reporters =
              SetToBag({<<"G1", <<"Alice">>>>, <<"G2", <<"Bob">>>>,
                        <<"G3", <<"Bob">>>>} \cup more)
    /\ \E rows \in SUBSET {<<"G1", DayBefore(FirstDay), <<"Alice">>>>,
                            <<"G3", DayBefore(FirstDay), <<"Bob">>>>} :
          reports = IF ReportsColumnExists("name") THEN SetToBag(rows)
                    ELSE EmptyBag
    /\ settings = NoRow
    /\ now = FirstDay
    /\ last = Idle
    /\ pushes = {}
    /\ submits = [h \in Handlers |-> NotCalled]
    /\ group_configs = {}
    /\ scan = NotScanning

\* if missing_reports: try: push_message(...) except LineBotApiError: print
ScanPushOutcome ==
    /\ scan.pc = "push"
    /\ IF scan.missing = {}
       THEN /\ scan' = [scan EXCEPT !.pc = "next_group"]
            /\ UNCHANGED <<pushes, last>>
       ELSE \E outcome \in PushOutcomes :
               /\ scan' = [scan EXCEPT
                              !.pc = IF outcome = "RequestException"
                                     THEN "done" ELSE "next_group",
                              !.tried = Append(@, [group_id |-> scan.group,
                                                   outcome |-> outcome])]
               /\ pushes' = IF outcome = "sent"
                            THEN pushes \cup {[group_id |-> scan.group,
                                               names |-> scan.missing]}
                            ELSE pushes
               /\ last' = IF outcome = "sent"
                          THEN [Idle EXCEPT !.calls = <<scan.fn>>,
                                            !.group_id = scan.group,
                                            !.names = scan.missing,
                                            !.reply = "Pushed"]
                          ELSE last
    /\ UNCHANGED <<reports_name_column, primary_keys, group_reporters, reports,
                   settings, now, submits, group_configs>>

NextPushFaults ==
    \/ ScanStart
    \/ ScanNextGroup
    \/ ScanReadRoster
    \/ ScanReadReports
    \/ ScanLookup
    \/ ScanPushOutcome

SpecPushFaults == InitPushFaults /\ [][NextPushFaults]_vars

-----------------------------------------------------------------------------
(* The AI mode of a group.  fix_db.py creates the table group_configs with    *)
(* the column ai_mode; the dispatcher branches that write and read it are not *)
(* in app.py and are taken from the specification (section 4.4, steps 2 and   *)
(* 6): the toggle keywords come before the other commands, and a message that *)
(* matches nothing is forwarded to the chat bridge when the mode is on.       *)

\* a default of TRUE for the column
AiModeDefault_on == TRUE

\* ai_mode BOOLEAN DEFAULT FALSE
AiModeDefault == FALSE

KwAiOn == "AI_ON"     \* the keyword "開啟智能模式"
KwAiOff == "AI_OFF"   \* the keyword "關閉智能模式"

ConfigRows(configs, group_id) == {r \in configs : r.group_id = group_id}

ai_mode(configs, group_id) ==
    IF ConfigRows(configs, group_id) = {} THEN AiModeDefault
    ELSE \E r \in ConfigRows(configs, group_id) : r.ai_mode

set_ai_mode(configs, group_id, mode) ==
    (configs \ ConfigRows(configs, group_id))
        \cup {[group_id |-> group_id, ai_mode |-> mode]}

AiTexts ==
    {<<KwAiOn>>, <<KwAiOff>>, <<"hello">>, <<KwAdd>>, <<"2025.11.20">>,
     <<KwAdd, "Bob">>, <<KwDelete, "Bob">>, <<"2025.11.20", "Bob">>} \cup ListTexts

AiEvents == [source_type : {"group"}, source_id : Groups, text : AiTexts]

\* step 2 of the dispatcher: a toggle keyword flips the mode of the group
ToggleAiMode ==
    \E event \in AiEvents :
        /\ event.text \in {<<KwAiOn>>, <<KwAiOff>>}
        /\ group_configs' = set_ai_mode(group_configs, event.source_id,
                                        event.text = <<KwAiOn>>)
        /\ last' = [Idle EXCEPT !.calls = <<"set_ai_mode">>,
                                !.group_id = event.source_id,
                                !.text = event.text,
                                !.reply = IF event.text = <<KwAiOn>>
                                          THEN "AiOn" ELSE "AiOff"]
        /\ pushes' = {}
        /\ UNCHANGED <<reports_name_column, primary_keys, group_reporters,
                       reports, settings, now, submits, scan>>

\* steps 3 to 5: the commands of handle_message
CommandMessage ==
    \E event \in AiEvents :
        LET s == handle_message(Db(group_reporters, reports, settings), TRUE, event)
        IN /\ event.text \notin {<<KwAiOn>>, <<KwAiOff>>}
           /\ s.calls /= <<>>
           /\ BagCardinality(s.db.group_reporters) <= MaxRoster
           /\ BagCardinality(s.db.reports) <= MaxReports
           /\ group_reporters' = s.db.group_reporters
           /\ reports' = s.db.reports
           /\ settings' = s.db.settings
           /\ last' = [calls |-> s.calls, group_id |-> event.source_id,
                       text |-> event.text, reporter_name |-> s.reporter_name,
                       date_str |-> s.date_str, reply |-> s.reply,
                       names |-> s.names, again |-> FALSE,
                       signature |-> "valid"]
           /\ pushes' = s.pushes
           /\ UNCHANGED <<reports_name_column, primary_keys, now, submits,
                          group_configs, scan>>

\* step 6: a message that matched nothing goes to the chat bridge when the
\* mode of the group is on, and is passed over in silence otherwise
Fallback ==
    \E event \in AiEvents :
        LET s == handle_message(Db(group_reporters, reports, settings), TRUE, event)
        IN /\ event.text \notin {<<KwAiOn>>, <<KwAiOff>>}
           /\ s.calls = <<>>
           /\ last' = IF ai_mode(group_configs, event.source_id)
                      THEN [Idle EXCEPT !.calls = <<"ai_chat">>,
                                        !.group_id = event.source_id,
                                        !.text = event.text,
                                        !.reply = "AiReply"]
                      ELSE [Idle EXCEPT !.group_id = event.source_id,
                                        !.text = event.text]
           /\ pushes' = {}
           /\ UNCHANGED <<reports_name_column, primary_keys, group_reporters,
                          reports, settings, now, submits, group_configs,
                          scan>>

NextAI == ToggleAiMode \/ CommandMessage \/ Fallback

SpecAI == Init /\ [][NextAI]_vars

-----------------------------------------------------------------------------
(* The Name Normalizer.  app.py has no such function: it is taken from the    *)
(* specification (section 4.1).  A raw name is a sequence of tokens, with the *)
(* token Sp in front when the text starts with whitespace; the names the      *)
(* dispatcher captures end with their last character (app.py:414).            *)

Sp == " "

\* a token that is a bracket pair of one of the styles ( [ and their wide
\* forms around 1 to 10 characters that are no bracket
LeadingTags == ParenTags \cup {"[B]"}

\* a bracket pair around more than 10 characters
LongTags == {"(ABCDEFGHIJK)"}

\* raw without the whitespace it starts with
Trim(raw) == IF raw /= <<>> /\ Head(raw) = Sp THEN Tail(raw) ELSE raw

\* a normalizer that strips every leading tag
RECURSIVE Normalize_all_tags(_)
Normalize_all_tags(raw) ==
    LET t == Trim(raw)
    IN IF t /= <<>> /\ Head(t) \in LeadingTags
       THEN IF Tail(t) = <<>> THEN raw ELSE Normalize_all_tags(Tail(t))
       ELSE t

\* normalize(raw): the leading run of whitespace, one bracketed tag and
\* whitespace is removed, unless nothing would be left; a name without such a
\* run is returned trimmed
Normalize(raw) ==
    LET t == Trim(raw)
    IN IF t /= <<>> /\ Head(t) \in LeadingTags
       THEN IF Tail(t) = <<>> THEN raw ELSE Tail(t)
       ELSE t

RawTokens == {"(A)", "[B]", "Bob"} \cup LongTags

RECURSIVE TokenSeqs(_)
TokenSeqs(n) ==
    IF n = 0 THEN {<<>>}
    ELSE TokenSeqs(n - 1)
         \cup {Append(q, tok) : q \in TokenSeqs(n - 1), tok \in RawTokens}

RawNames ==
    LET named == TokenSeqs(MaxTokens) \ {<<>>}
    IN named \cup {<<Sp>> \o q : q \in named}

\* a raw name is at hand; nothing has been normalized yet
InitNormalize ==
    /\ reports_name_column \in {"name", "reporter_name"}
    /\ primary_keys = CreatedByScheduler
    /\ submits = [h \in Handlers |-> NotCalled]
    /\ group_configs = {}
    /\ scan = NotScanning
    /\ group_reporters = EmptyBag
    /\ reports = EmptyBag
    /\ settings = NoRow
    /\ now = FirstDay
    /\ last \in {[Idle EXCEPT !.text = raw, !.reporter_name = raw] :
                     raw \in RawNames}
    /\ pushes = {}

\* normalize is applied to the name at hand
ApplyNormalize ==
    /\ Len(last.calls) < MaxApplications
    /\ last' = [last EXCEPT !.calls = Append(@, "normalize"),
                            !.reporter_name = Normalize(@)]
    /\ UNCHANGED <<reports_name_column, primary_keys, group_reporters, reports,
                   settings, now, pushes, submits, group_configs, scan>>

NextNormalize == ApplyNormalize

SpecNormalize == InitNormalize /\ [][NextNormalize]_vars

-----------------------------------------------------------------------------
(* Vocabulary of the properties *)

\* the last step was a message that made handle_message call fn, and the
\* function got its connection
Ran(fn) == last.calls = <<fn>> /\ last.reply /= "ConnFailed"

\* the row of reports that the save_report call of the last step is about
LastReport == <<last.group_id, DateTexts[last.date_str], last.reporter_name>>

\* the row of group_reporters that the call of the last step is about
LastEntry == <<last.group_id, last.reporter_name>>

\* the names on the roster of a group
Roster(g) == {r[2] : r \in {x \in BagToSet(group_reporters) : x[1] = g}}

\* the names with a row in reports for a group and a date
Submitted(g, d) ==
    {r[3] : r \in {x \in BagToSet(reports) : x[1] = g /\ x[2] = d}}

-----------------------------------------------------------------------------
(* C1 *)

\* C1, as stated: in every reachable state there is at most one Submission per
\* (group_id, report_date, normalized name).
C1_OnePerNormalizedName ==
    \A r1, r2 \in BagToSet(reports) :
        (r1[1] = r2[1] /\ r1[2] = r2[2] /\ Normalize(r1[3]) = Normalize(r2[3]))
            => r1 = r2

\* C1, amended: in every reachable state there is at most one Submission per
\* (group_id, report_date, reporter name as save_report received it), and after
\* a submit that was answered Recorded or DuplicateForDate there is exactly one
\* Submission for its key.
C1_OnePerName ==
    /\ \A r \in BagToSet(reports) : CopiesIn(r, reports) = 1
    /\ (Ran("save_report") /\ last.reply \in {"Recorded", "DuplicateForDate"})
           => CopiesIn(LastReport, reports) = 1

\* a second submit of a name that has its Submission was answered DuplicateForDate
C1_Witness ==
    /\ Ran("save_report")
    /\ last.reply = "DuplicateForDate"
    /\ CopiesIn(LastReport, reports) = 1

-----------------------------------------------------------------------------
(* C2 *)

\* C2: a submit for a (group, date, name) key that has a Submission already is
\* answered DuplicateForDate and writes nothing: the Submission, every other
\* Submission, the roster and the settings are as they were, and nothing is
\* pushed.
C2_DuplicateRejected ==
    [][ (Ran("save_report")' /\ BagIn(LastReport', reports))
           => /\ last'.reply = "DuplicateForDate"
              /\ reports' = reports
              /\ group_reporters' = group_reporters
              /\ settings' = settings
              /\ pushes' = {} ]_vars

\* a submit met its own earlier Submission, with another Submission and
\* another roster entry around
C2_Witness ==
    /\ Ran("save_report")
    /\ last.reply = "DuplicateForDate"
    /\ BagIn(LastReport, reports)
    /\ BagCardinality(reports) >= 2
    /\ BagCardinality(group_reporters) >= 2

-----------------------------------------------------------------------------
(* C3 *)

\* C3, as stated: in every reachable state there is at most one RosterEntry per
\* (group_id, normalized name).
C3_OnePerNormalizedName ==
    \A r1, r2 \in BagToSet(group_reporters) :
        (r1[1] = r2[1] /\ Normalize(r1[2]) = Normalize(r2[2])) => r1 = r2

\* C3, amended: in every reachable state there is at most one RosterEntry per
\* (group_id, name as add_reporter received it), and after an add that was
\* answered Added or AlreadyExists there is exactly one RosterEntry for its key.
C3_OnePerName ==
    /\ \A r \in BagToSet(group_reporters) : CopiesIn(r, group_reporters) = 1
    /\ (Ran("add_reporter") /\ last.reply \in {"Added", "AlreadyExists"})
           => CopiesIn(LastEntry, group_reporters) = 1

\* a second add of a name that is on the roster was answered AlreadyExists
C3_Witness ==
    /\ Ran("add_reporter")
    /\ last.reply = "AlreadyExists"
    /\ CopiesIn(LastEntry, group_reporters) = 1

-----------------------------------------------------------------------------
(* C4 *)

\* the save_report call of the step names, with a date of the calendar, a
\* person who has no RosterEntry in the sender's group before the step
SubmitByStranger ==
    /\ Ran("save_report")'
    /\ ValidDate(DateTexts[last'.date_str])
    /\ ~BagIn(LastEntry', group_reporters)

\* C4, as stated: a submit naming a person without a RosterEntry in the
\* sender's group creates the RosterEntry and records the Submission.
C4_AutoEnroll ==
    [][ SubmitByStranger
           => /\ BagIn(LastEntry', group_reporters')
              /\ BagIn(LastReport', reports') ]_vars

\* C4, amended: a submit naming a person without a RosterEntry in the sender's
\* group is answered NotOnRoster and writes nothing: no RosterEntry is created
\* and no Submission is recorded.
C4_StrangerRejected ==
    [][ SubmitByStranger
           => /\ last'.reply = "NotOnRoster"
              /\ group_reporters' = group_reporters
              /\ reports' = reports
              /\ settings' = settings ]_vars

\* a submit for a person who is not on the roster of the group, while the
\* same name is on the roster of the other group, was answered NotOnRoster
C4_Witness ==
    /\ Ran("save_report")
    /\ last.reply = "NotOnRoster"
    /\ ~BagIn(LastEntry, group_reporters)
    /\ \E g \in Groups : BagIn(<<g, last.reporter_name>>, group_reporters)

-----------------------------------------------------------------------------
(* C5 *)

\* C5: with the roster {Alice, Bob} in G1, the message "2025.11.20 Alice had a
\* great day" is answered Recorded, or DuplicateForDate when it is repeated,
\* and leaves a Submission of Alice for 2025-11-20 in G1, so that Alice is not
\* among the missing of G1 for that date.
C5_EndToEnd ==
    ( /\ last.group_id = "G1"
      /\ last.text = <<"2025.11.20", "Alice", "had", "a", "great", "day">>
      /\ last.reply /= "ConnFailed"
      /\ Roster("G1") = {<<"Alice">>, <<"Bob">>} )
    => /\ last.reply \in {"Recorded", "DuplicateForDate"}
       /\ BagIn(<<"G1", <<2025, 11, 20>>, <<"Alice">>>>, reports)
       /\ <<"Alice">> \notin Roster("G1") \ Submitted("G1", <<2025, 11, 20>>)

-----------------------------------------------------------------------------
(* C6 *)

\* the members of a group without a Submission for the date the scan looks at
Missing(g) == Roster(g) \ Submitted(g, DayBefore(now))

\* C6: a scheduled scan that is neither paused nor cut off from the database
\* pushes, to every group that is not excluded, a reminder naming exactly the
\* roster members without a Submission for the target date, and pushes nothing
\* to a group where nobody is missing.
C6_ScanPushesMissing ==
    ( /\ last.calls = <<"check_daily_reminder">>
      /\ last.reply \notin {"ScanNoTables", "ScanConnFailed", "ScanPaused"} )
    => pushes = {[group_id |-> g, names |-> Missing(g)] :
                    g \in {x \in Groups \ EXCLUDE_GROUP_IDS : Missing(x) /= {}}}

-----------------------------------------------------------------------------
(* C7 *)

\* C7: remove_member of a name on the roster of the group deletes that
\* RosterEntry and every Submission of that name in the group, and nothing else.
C7_RemoveCascades ==
    [][ (Ran("delete_reporter")' /\ BagIn(LastEntry', group_reporters))
           => /\ group_reporters' = DeleteRows(group_reporters, {LastEntry'})
              /\ reports' =
                    DeleteRows(reports,
                               {r \in BagToSet(reports) :
                                   /\ r[1] = last'.group_id
                                   /\ r[3] = last'.reporter_name})
              /\ settings' = settings ]_vars

-----------------------------------------------------------------------------
(* C8 *)

\* C8: remove_member of a name that is not on the roster of the group is
\* answered NotFound and leaves the roster and the submissions as they were.
C8_RemoveAbsent ==
    [][ (Ran("delete_reporter")' /\ ~BagIn(LastEntry', group_reporters))
           => /\ last'.reply = "NotFound"
              /\ group_reporters' = group_reporters
              /\ reports' = reports
              /\ settings' = settings ]_vars

\* a remove of a name that is not on the roster of the group was answered
\* NotFound while the roster and the submissions held rows
C8_Witness ==
    /\ Ran("delete_reporter")
    /\ last.reply = "NotFound"
    /\ ~BagIn(LastEntry, group_reporters)
    /\ BagCardinality(group_reporters) >= 1
    /\ BagCardinality(reports) >= 1

-----------------------------------------------------------------------------
(* C9 *)

\* C9 as the specification words it, with the entry looked up by the normalized
\* name: add_member of a name whose normalized form has a RosterEntry in the
\* group is answered AlreadyExists and changes nothing; otherwise it inserts
\* exactly one RosterEntry, is answered Added, and leaves the rest as it was.
C9_AddMemberNormalized ==
    [][ Ran("add_reporter")'
           => IF \E r \in BagToSet(group_reporters) :
                    /\ r[1] = last'.group_id
                    /\ Normalize(r[2]) = Normalize(last'.reporter_name)
              THEN /\ last'.reply = "AlreadyExists"
                   /\ group_reporters' = group_reporters
                   /\ reports' = reports
                   /\ settings' = settings
              ELSE /\ last'.reply = "Added"
                   /\ BagCardinality(group_reporters') =
                         BagCardinality(group_reporters) + 1
                   /\ reports' = reports
                   /\ settings' = settings ]_vars

\* C9, by the name as it was sent: add_member of a name that has a RosterEntry in the group is answered
\* AlreadyExists and changes nothing; otherwise it inserts exactly one
\* RosterEntry for the group and the name, is answered Added, and leaves every
\* other RosterEntry and all submissions as they were.
C9_AddMember ==
    [][ Ran("add_reporter")'
           => IF BagIn(LastEntry', group_reporters)
              THEN /\ last'.reply = "AlreadyExists"
                   /\ group_reporters' = group_reporters
                   /\ reports' = reports
                   /\ settings' = settings
              ELSE /\ last'.reply = "Added"
                   /\ group_reporters' = group_reporters (+) Row(LastEntry')
                   /\ reports' = reports
                   /\ settings' = settings ]_vars

\* an add was answered Added next to another roster entry and a submission
C9_Witness ==
    /\ Ran("add_reporter")
    /\ last.reply = "Added"
    /\ CopiesIn(LastEntry, group_reporters) = 1
    /\ BagCardinality(group_reporters) >= 2
    /\ BagCardinality(reports) >= 1

-----------------------------------------------------------------------------
(* C10 *)

\* date texts of the right shape that name no day of the calendar
InvalidDateTexts == {"2025.13.01", "2025.11.31"}

\* C10: a submit whose date text names no day of the calendar (a month 13, a
\* 31st of November) is answered InvalidDate and writes nothing, whether or not
\* the named person is on the roster.
C10_InvalidDate ==
    [][ (Ran("save_report")' /\ last'.date_str \in InvalidDateTexts)
           => /\ last'.reply = "InvalidDate"
              /\ group_reporters' = group_reporters
              /\ reports' = reports
              /\ settings' = settings ]_vars

\* a submit with month 13 for a person on the roster was answered InvalidDate
C10_Witness ==
    /\ Ran("save_report")
    /\ last.date_str = "2025.13.01"
    /\ last.reply = "InvalidDate"
    /\ BagIn(LastEntry, group_reporters)

-----------------------------------------------------------------------------
(* C11 *)

\* the last step was a scheduled scan that got both its connections
Scanned ==
    /\ last.calls = <<"check_daily_reminder">>
    /\ last.reply \notin {"ScanNoTables", "ScanConnFailed"}

\* C11: the pause flag is what the last committed pause or resume command
\* wrote (a committed pause sets it, a committed resume clears it, and no other
\* step touches it; before any command it is not set), and a scan is
\* suppressed, pushing to no group, exactly when the flag is set at the moment
\* the scan reads it.
C11_PauseGovernsScan ==
    [][ /\ (last'.calls = <<"set_pause_state">> /\ last'.reply = "Paused")
              => settings' = "true"
        /\ (last'.calls = <<"set_pause_state">> /\ last'.reply = "Resumed")
              => settings' = "false"
        /\ ~(last'.calls = <<"set_pause_state">>
                /\ last'.reply \in {"Paused", "Resumed"})
              => settings' = settings
        /\ Scanned'
              => /\ (last'.reply = "ScanPaused") <=> (settings = "true")
                 /\ settings = "true" => pushes' = {}
        /\ (last'.calls = <<"test_all_daily_reminders">>
               /\ last'.reply /= "TestAllConnFailed")
              => /\ (last'.reply = "TestAllPaused") <=> (settings = "true")
                 /\ settings = "true" => pushes' = {} ]_vars

\* a scan that would have pushed to G1 was suppressed by a committed pause
C11_Witness ==
    /\ Scanned
    /\ last.reply = "ScanPaused"
    /\ settings = "true"
    /\ ReportsColumnExists("reporter_name")
    /\ Missing("G1") /= {}
    /\ pushes = {}

-----------------------------------------------------------------------------
(* C12 *)

\* the groups with a roster entry
RosterGroups == {r[1] : r \in BagToSet(group_reporters)}

-----------------------------------------------------------------------------
(* C13 *)

\* C13: a scheduled scan changes no roster entry, no submission and not the
\* pause flag; and a scan that follows a scan with no command and no midnight
\* in between comes to the same result and pushes to the same groups with the
\* same names.
C13_ScanReadOnlyIdempotent ==
    [][ last'.calls = <<"check_daily_reminder">>
           => /\ group_reporters' = group_reporters
              /\ reports' = reports
              /\ settings' = settings
              /\ (Scanned /\ Scanned')
                    => /\ last'.reply = last.reply
                       /\ pushes' = pushes ]_vars

\* a second scan in a row pushed again, with rows in the store
C13_Witness ==
    /\ Scanned
    /\ last.again
    /\ pushes /= {}
    /\ BagCardinality(group_reporters) >= 2
    /\ settings = "false"

-----------------------------------------------------------------------------
(* C14 *)

\* C14: two save_report calls for one key can both get past the lookup for a
\* report that is there already; with the uniqueness constraint on reports at
\* most one of them commits a Submission, so there is never more than one
\* Submission per key, and the call that loses ends with a reply and without
\* a write.
C14_RaceKeepsOnePerKey ==
    HasPrimaryKeys
       => /\ \A r \in BagToSet(reports) : CopiesIn(r, reports) = 1
          /\ \A h1, h2 \in Handlers :
                (h1 /= h2 /\ submits[h1].pc = "done" /\ submits[h2].pc = "done"
                    /\ RaceRow(h1) = RaceRow(h2))
                   => ~(submits[h1].wrote /\ submits[h2].wrote)
          /\ \A h \in Handlers :
                submits[h].pc = "done"
                   => /\ submits[h].reply /= None
                      /\ submits[h].wrote <=> submits[h].reply = "Recorded"
                      /\ submits[h].wrote => BagIn(RaceRow(h), reports)

\* both calls got past the lookup for the same key; one has recorded, the
\* other met the constraint and ended with the database failure reply
C14_Witness ==
    /\ HasPrimaryKeys
    /\ submits[1].pc = "done" /\ submits[2].pc = "done"
    /\ RaceRow(1) = RaceRow(2)
    /\ submits[1].reply = "Recorded"
    /\ submits[2].reply = "DbError"
    /\ ReportsColumnExists("name")
    /\ CopiesIn(RaceRow(1), reports) = 1

-----------------------------------------------------------------------------
(* C15 *)

\* the patterns of the dispatcher in their fixed order, each with whether the
\* text matches it and the operation it stands for; the patterns after the
\* third apply to messages of a group or a room only
Patterns(text, in_group) ==
    << <<text \in AllListTexts, "get_all_reporters_across_groups">>,
       <<text \in PauseTexts, "set_pause_state">>,
       <<text \in ResumeTexts, "set_pause_state">>,
       <<in_group /\ text \in TestAllTexts, "test_all_daily_reminders">>,
       <<in_group /\ text \in TestTexts, "test_daily_reminder">>,
       <<in_group /\ match_add(text) /= NoMatch, "add_reporter">>,
       <<in_group /\ match_delete(text) /= NoMatch, "delete_reporter">>,
       <<in_group /\ text \in ListTexts, "get_reporter_list">>,
       <<in_group /\ match_report(text) /= NoMatch, "save_report">> >>

\* the operation of the first pattern that matches, if any
FirstMatch(text, in_group) ==
    LET p == Patterns(text, in_group)
        hits == {k \in 1..Len(p) : p[k][1]}
    IN IF hits = {} THEN <<>>
       ELSE <<p[CHOOSE k \in hits : \A j \in hits : k <= j][2]>>

\* C15: for every message the dispatcher calls at most one store operation,
\* the one of the first pattern in the fixed order that the first line matches;
\* no text makes two operations run.
C15_OneOperationPerMessage ==
    last.group_id /= None
       => /\ Len(last.calls) <= 1
          /\ last.calls = FirstMatch(last.text, last.group_id \in Groups)

\* a line that starts as an add and goes on as a report ran add_reporter alone
C15_Witness ==
    /\ last.text = <<KwAdd, "2025.11.20", "Bob">>
    /\ last.calls = <<"add_reporter">>
    /\ last.reply = "Added"
    /\ BagIn(<<"G1", <<"2025.11.20", "Bob">>>>, group_reporters)

-----------------------------------------------------------------------------
(* C16 *)

\* C16: every message of a group whose first line matches a command pattern is
\* answered with exactly one reply, whether the operation succeeds, meets a
\* conflict, is given invalid input or fails in the store.
C16_AlwaysOneReply ==
    (last.group_id \in Groups /\ FirstMatch(last.text, TRUE) /= <<>>)
       => reply_message(last.reply) = 1

-----------------------------------------------------------------------------
(* C17 *)

\* the reply kinds that report a failure of the store
FailureReplies ==
    {"ConnFailed", "PauseConnFailed", "TestConnFailed", "TestAllConnFailed",
     "DbError", "TestError", "TestAllError"}

\* C17: when a store operation fails, the reply is a generic failure message
\* that carries no internal error text, and the store is left as it was.
C17_GenericFailureReply ==
    [][ last'.reply \in FailureReplies
           => /\ ~CarriesExceptionText(last'.reply)
              /\ group_reporters' = group_reporters
              /\ reports' = reports
              /\ settings' = settings ]_vars

-----------------------------------------------------------------------------
(* C18 *)

\* C18: no failure of the store while a message is handled gets out of the
\* dispatcher: handle_message returns and the webhook answers OK.
C18_NothingPropagates ==
    /\ last.reply /= "Raised"
    /\ callback(last.reply) = "OK"

-----------------------------------------------------------------------------
(* C20 *)

\* the target date of the configuration days_ago
DaysAgo(days_ago) == IF days_ago = 0 THEN now ELSE DayBefore(now)

\* C20, as stated: the scan runs in two configurations, days_ago = 0 against
\* the submissions of today and days_ago = 1 against those of yesterday.
C20_BothTargets ==
    ( /\ last.calls \in {<<"check_daily_reminder">>, <<"test_daily_reminder">>,
                         <<"test_all_daily_reminders">>}
      /\ last.reply \in {"ScanDone", "TestMissing", "TestAllDone",
                         "TestAllPushed"} )
       => \A days_ago \in {0, 1} : DaysAgo(days_ago) \in ScanTargets

\* the pushes of a scan over all groups that compares against yesterday
PushesForYesterday ==
    {[group_id |-> g, names |-> Missing(g)] :
        g \in {x \in Groups \ EXCLUDE_GROUP_IDS : Missing(x) /= {}}}

\* C20, amended: every scan, the scheduled one and the two tests, has one target
\* date, the day before the current one: its missing set is the roster minus
\* the submissions of yesterday, whatever has been submitted for today.
C20_ScansTargetYesterday ==
    /\ ScanTargets = {DaysAgo(1)}
    /\ (last.calls = <<"test_daily_reminder">> /\ last.reply = "TestMissing")
          => last.names = Missing(last.group_id)
    /\ (last.calls = <<"test_daily_reminder">> /\ last.reply = "TestAllDone")
          => Roster(last.group_id) /= {} /\ Missing(last.group_id) = {}
    /\ (last.calls = <<"test_all_daily_reminders">>
           /\ last.reply \in {"TestAllPushed", "TestAllDone"})
          => pushes = PushesForYesterday
    /\ (Scanned /\ last.reply = "ScanDone") => pushes = PushesForYesterday

\* the test of a group listed a member who has a Submission for today and
\* none for yesterday
C20_Witness ==
    /\ last.calls = <<"test_daily_reminder">>
    /\ last.reply = "TestMissing"
    /\ \E n \in last.names :
          /\ n \in Submitted(last.group_id, now)
          /\ n \notin Submitted(last.group_id, DayBefore(now))

-----------------------------------------------------------------------------
(* C19 *)

\* the group has switched its AI mode on and not off since
SwitchedOn(g) == [group_id |-> g, ai_mode |-> TRUE] \in group_configs

\* the step handles a message of a group that matches no command pattern
NonCommandMessage ==
    /\ last'.group_id \in Groups
    /\ last'.text \notin {<<KwAiOn>>, <<KwAiOff>>}
    /\ FirstMatch(last'.text, TRUE) = <<>>

-----------------------------------------------------------------------------
(* C21 *)

\* C21: a delivery whose signature fails the check is answered with status 400
\* before anything is dispatched: no store function is called, nothing is
\* replied or pushed, and roster, submissions and pause flag stay as they were.
C21_BadSignatureRejected ==
    [][ last'.signature /= "valid"
           => /\ callback(last'.reply) = "400"
              /\ last'.calls = <<>>
              /\ reply_message(last'.reply) = 0
              /\ pushes' = {}
              /\ group_reporters' = group_reporters
              /\ reports' = reports
              /\ settings' = settings ]_vars

\* the all-groups test came with a bad signature while a member of G1 was
\* missing and the reminders were not paused: it was turned away with 400
C21_Witness ==
    /\ last.signature = "invalid"
    /\ last.text \in TestAllTexts
    /\ callback(last.reply) = "400"
    /\ ReportsColumnExists("name")
    /\ settings = "false"
    /\ \E n \in Roster("G1") : n \notin Submitted("G1", DayBefore(now))
    /\ pushes = {}

-----------------------------------------------------------------------------
(* C22 *)

\* C22: the test of a single group answers the message that asked for it with
\* the result for that group alone (the names it lists are the members of the
\* group without a Submission for yesterday); it pushes to no group and
\* changes no roster entry, no submission and not the pause flag.
C22_TestRepliesOnly ==
    [][ last'.calls = <<"test_daily_reminder">>
           => /\ pushes' = {}
              /\ reply_message(last'.reply) = 1
              /\ group_reporters' = group_reporters
              /\ reports' = reports
              /\ settings' = settings
              /\ last'.names \subseteq Roster(last'.group_id)
              /\ last'.reply = "TestMissing"
                    => last'.names = Roster(last'.group_id)
                                       \ Submitted(last'.group_id, DayBefore(now))
              /\ last'.reply /= "TestMissing" => last'.names = {} ]_vars

\* the test in G1 listed the missing member of G1 and not the missing member
\* of G2, and nothing was pushed
C22_Witness ==
    /\ last.calls = <<"test_daily_reminder">>
    /\ last.group_id = "G1"
    /\ last.reply = "TestMissing"
    /\ last.names = {<<"Alice">>}
    /\ Missing("G2") = {<<"Bob">>}
    /\ pushes = {}

-----------------------------------------------------------------------------
(* C23 *)

\* normalize has been applied k times to the raw name last.text, and
\* last.reporter_name is what the last application returned
Normalized(k) == Len(last.calls) = k /\ last.calls[k] = "normalize"

\* the raw name, trimmed, starts with a tag that normalize strips
HasLeadingTag(raw) == Trim(raw) /= <<>> /\ Head(Trim(raw)) \in LeadingTags

\* add_member of the name, sent when the roster of the group holds the entry
\* `entry`, finds that entry
RosterMatches(entry, name) ==
    add_reporter(Db(Row(<<"G1", entry>>), EmptyBag, NoRow), TRUE, "G1", name).reply
        = "AlreadyExists"

\* a submit of the name, sent when the person is on the roster and the group
\* holds a Submission of `entry` for the date, finds that Submission
SubmissionMatches(entry, name) ==
    save_report(Db(Row(<<"G1", name>>),
                   Row(<<"G1", <<2025, 11, 20>>, entry>>), NoRow),
                TRUE, "G1", "2025.11.20", name).reply = "DuplicateForDate"

TwoLeadingTags(raw) ==
    /\ Len(Trim(raw)) >= 3
    /\ Trim(raw)[1] \in LeadingTags
    /\ Trim(raw)[2] \in LeadingTags

\* what one application makes of a raw name, case by case
StrippedOnce(raw) ==
    IF ~HasLeadingTag(raw) THEN Trim(raw)
    ELSE IF Len(Trim(raw)) = 1 THEN raw
    ELSE Tail(Trim(raw))

-----------------------------------------------------------------------------
(* C24 *)

\* C24: in every reachable state, with a removal and a submit for the same
\* group and name under way at the same time as well, every Submission is of
\* a person who has a RosterEntry in that group.
C24_NoOrphanSubmissions ==
    \A r \in BagToSet(reports) : BagIn(<<r[1], r[3]>>, group_reporters)

-----------------------------------------------------------------------------
(* C25 *)

\* the last step of the webhook and the scans was a push of a reminder
Pushed == last.reply = "Pushed"

\* C25, as stated: every name listed in a pushed reminder is, at the moment of
\* the push, on the roster of the group and without a Submission for the
\* target date, whatever the commands have committed between the reads of the
\* scan.
C25_PushedNamesCurrent ==
    Pushed
       => \A n \in last.names :
             /\ n \in Roster(last.group_id)
             /\ n \notin Submitted(last.group_id, DayBefore(now))

\* C25, amended: the names of a pushed reminder are what the scan read.  At
\* the moment of the push every listed name is on the roster of the group and
\* without a Submission for the target date unless a command has written a
\* row of that name since the scan began, and every member who is missing at
\* that moment is listed unless a command has written a row of that name
\* since the scan began.
C25_PushedNamesAsRead ==
    Pushed
       => /\ \A n \in last.names :
                \/ n \in scan.touched
                \/ /\ n \in Roster(last.group_id)
                   /\ n \notin Submitted(last.group_id, DayBefore(now))
          /\ \A n \in Roster(last.group_id)
                       \ Submitted(last.group_id, DayBefore(now)) :
                n \in last.names \/ n \in scan.touched

\* a reminder was pushed that lists a person whose Submission for the target
\* date was committed after the scan had looked for it, next to a person who
\* is missing indeed
C25_Witness ==
    /\ Pushed
    /\ \E n \in last.names :
          /\ n \in Submitted(last.group_id, DayBefore(now))
          /\ n \in scan.touched
    /\ \E n \in last.names :
          /\ n \notin scan.touched
          /\ n \in Roster(last.group_id)

-----------------------------------------------------------------------------
(* C26 *)

\* the step leaves every row of the table that is of another group than g
OthersKept(table, table2, g) ==
    \A r \in BagToSet(table) \cup BagToSet(table2) :
        r[1] /= g => CopiesIn(r, table2) = CopiesIn(r, table)

\* C26, as stated: a message sent in group g changes roster entries and
\* submissions of g only and pushes to no other group than g.
C26_GroupIsolation ==
    [][ last'.group_id \in Groups
           => /\ OthersKept(group_reporters, group_reporters', last'.group_id)
              /\ OthersKept(reports, reports', last'.group_id)
              /\ \A p \in pushes' : p.group_id = last'.group_id ]_vars

\* C26, amended: a message sent in group g changes roster entries and
\* submissions of g only.  No command but the test of all groups pushes; that
\* test, sent in any group, pushes to every group outside EXCLUDE_GROUP_IDS
\* that has a member without a report for yesterday, whichever group asked.
C26_IsolationButTestAll ==
    [][ last'.group_id \in Groups
           => /\ OthersKept(group_reporters, group_reporters', last'.group_id)
              /\ OthersKept(reports, reports', last'.group_id)
              /\ last'.calls /= <<"test_all_daily_reminders">> => pushes' = {}
              /\ last'.reply = "TestAllPushed"
                    => pushes' =
                         {[group_id |-> g,
                           names |-> Roster(g) \ Submitted(g, DayBefore(now))] :
                            g \in {x \in Groups \ EXCLUDE_GROUP_IDS :
                                      Roster(x) \ Submitted(x, DayBefore(now))
                                          /= {}}} ]_vars

\* the test of all groups, sent in G2, pushed a reminder to G1, while both
\* groups have a member of the same name
C26_Witness ==
    /\ last.group_id = "G2"
    /\ last.reply = "TestAllPushed"
    /\ \E p \in pushes : p.group_id = "G1"
    /\ Roster("G1") \cap Roster("G2") /= {}

-----------------------------------------------------------------------------
(* C27 *)

\* the missing names the test of a single group comes to, if it comes to any
TestMissingSet(r) ==
    IF r.reply = "TestMissing" THEN <<r.names>>
    ELSE IF r.reply = "TestAllDone" THEN <<{}>>
    ELSE <<>>

\* the missing names the scheduled scan comes to for a group, if it gets
\* that far
ScanMissingSet(r, g) ==
    IF r.reply /= "ScanDone" THEN <<>>
    ELSE IF \E p \in r.pushes : p.group_id = g
    THEN <<(CHOOSE p \in r.pushes : p.group_id = g).names>>
    ELSE <<{}>>

\* C27: over the same store, for the same group and target date, the test of
\* a single group (one lookup per member) and the scheduled scan (a set
\* difference) come to the same set of missing names.
C27_SameMissing ==
    \A g \in Groups \ EXCLUDE_GROUP_IDS :
        LET db == Db(group_reporters, reports, settings)
            tested == TestMissingSet(test_daily_reminder(db, TRUE, g))
            scanned == ScanMissingSet(check_daily_reminder(db, TRUE, TRUE), g)
        IN (Roster(g) /= {} /\ ~is_global_pause_state(db))
              => /\ tested /= <<>>
                 /\ scanned /= <<>>
                 /\ tested = scanned

-----------------------------------------------------------------------------
(* C28 *)

\* a scan has come to its end and its function reads the reporter column the
\* reports table has
ScanEnded ==
    /\ scan.pc = "done"
    /\ scan.fn = "check_daily_reminder" => ReportsColumnExists("reporter_name")
    /\ scan.fn = "test_all_daily_reminders" => ReportsColumnExists("name")

\* C28: within one scan a push that fails keeps no other group from its
\* reminder: when the scan has ended, every group outside EXCLUDE_GROUP_IDS
\* with a missing member has got its reminder, except those whose own push
\* failed; and no group is pushed to twice.
C28_PushFailureSkipsNoGroup ==
    ScanEnded
       => /\ \A g \in RosterGroups \ EXCLUDE_GROUP_IDS :
                Missing(g) /= {}
                   => \/ \E p \in pushes : p.group_id = g
                      \/ \E k \in DOMAIN scan.tried :
                            /\ scan.tried[k].group_id = g
                            /\ scan.tried[k].outcome /= "sent"
          /\ \A j, k \in DOMAIN scan.tried :
                scan.tried[j].group_id = scan.tried[k].group_id => j = k

-----------------------------------------------------------------------------
(* C29 *)

\* C29: a store function that has returned has left no connection open,
\* whatever it answered.
C29_ConnectionsClosed ==
    \A h \in Handlers :
        submits[h].pc = "done" => submits[h].conn /= "open"

====
